---- MODULE Spec2Model ----
(***************************************************************************)
(* Model of the phoneme-segment editor (PhonemeEditor) and of the page     *)
(* state it edits (RhubarbLipSyncApp.editablePhonemes).                    *)
(*                                                                         *)
(* Times are integers counting ticks of 10 ms (0.02 s = 2 ticks,           *)
(* 1.0 s = 100 ticks).  A segment id "segment-<i>" is modelled by the      *)
(* index i it is formatted from and parsed back to; null is NoSel.         *)
(* Sequences are 1-based here and 0-based in the source: the source's      *)
(* phonemes[i] is phonemes[i + 1].                                         *)
(***************************************************************************)
EXTENDS Integers, Sequences, FiniteSets, TLC

VARIABLES
    phonemes,               \* the live sequence (prop phonemes = editablePhonemes)
    history,                \* useState<HistoryEntry[]>
    historyIndex,           \* useState(-1)
    selectedSegmentId,      \* index of the selected segment, or NoSel
    selectedBoundaryIndex,  \* index of the selected boundary, or NoSel
    currentTime,            \* the editor's play-head, in ticks
    dragPhonemes,           \* phonemes captured by the segments.dragend listener
    dragHistoryIndex,       \* historyIndex captured by the segments.dragend listener
    last,                   \* record of the handler that ran last (history variable)
    nCommits,               \* number of addToHistory calls so far (bounded)
    isPlaying,              \* the editor's player is playing
    playbackIsPlaying,      \* useAudioPlayback().isPlaying: the page's audio is playing
    playbackCurrentTime,    \* useAudioPlayback().currentTime, in ticks
    activePlayer,           \* useState<'timeline' | 'editor' | null>, null is "none"
    contextMenu,            \* useState<{segmentId, type, boundaryIndex?} | null>
    tried,                  \* the handler an observer saw run last, and how it ended
    status,                 \* useAudioProcessor().status
    error,                  \* useAudioProcessor().error, null is NoError
    result,                 \* useAudioProcessor().result: the last detection result
    processingRef,          \* processingRef.current: a detection call is in flight
    pending,                \* the detection calls awaiting the detector's answer
    extendedShapes,         \* useState("GHX"): the page's extended-shapes setting
    currentAudioBlob,       \* useState<Blob | null>: the audio last handed in
    rhubarbApiUrl,          \* NEXT_PUBLIC_RHUBARB_API_URL is set: the external API is used
    downloaded,             \* the text of the JSON file last downloaded, or NoFile
    staleEntries,           \* number of history entries, from the oldest, committed
                            \* before the sequence was last replaced (history variable)
    files,                  \* the temporary files of the gateways' host: path -> file
    requests,               \* the detection requests of the gateways and where each is
    clock,                  \* Date.now() on the gateways' host, in milliseconds
    exportedShapes,         \* the mouth shape of each frame of the last video export,
                            \* by the frame's time in ticks
    splitTimer,             \* the pending setTimeout of 'Split in Half': what the
                            \* splitAtPlayhead it will call has captured
    resultShapes            \* the extendedShapes option of the call whose answer is
                            \* the displayed sequence (history variable)

\* the state of the two transports and of the page's arbitration between them
transportVars == <<isPlaying, playbackIsPlaying, playbackCurrentTime, activePlayer>>

\* the state of the detection (useAudioProcessor), of the page's settings and
\* of the export
detectVars == <<status, error, result, processingRef, pending, extendedShapes,
                currentAudioBlob, rhubarbApiUrl, downloaded, files, requests, clock,
                exportedShapes, splitTimer>>

vars == <<phonemes, history, historyIndex, selectedSegmentId, selectedBoundaryIndex,
          currentTime, dragPhonemes, dragHistoryIndex, last, nCommits,
          isPlaying, playbackIsPlaying, playbackCurrentTime, activePlayer,
          contextMenu, tried, status, error, result, processingRef, pending,
          extendedShapes, currentAudioBlob, rhubarbApiUrl, downloaded, staleEntries,
          files, requests, clock, exportedShapes, splitTimer, resultShapes>>

----------------------------------------------------------------------------
(* Bounds of the model: the total duration in ticks, the number of commits *)
(* (addToHistory calls) a behaviour may make, the last millisecond of the  *)
(* gateways' clock, and the number of detection calls a behaviour may have *)
(* in flight                                                               *)

Duration == 100
MaxCommits == 2
MaxClock == 1
MaxInFlight == 2

(* Program constants: 0.02 s in ticks; the history capacity; the largest  *)
(* cursor; the frames per second of the video export                      *)

SplitGuard == 2
HistoryCap == 50
HistoryMaxIndex == 49
FRAME_RATE == 30

NoSel == -1

\* contextMenu === null
NoMenu == [type |-> "none", index |-> NoSel]

\* the context menu opened on a segment (its segmentId) or on a boundary (its
\* boundaryIndex)
Menu(type, index) == [type |-> type, index |-> index]

\* the splitAtPlayhead a 'Split in Half' click has scheduled: the segment the
\* menu was opened on, and the phonemes, currentTime and historyIndex of the
\* render the click handler belongs to
SplitClosure(index, ps, time, idx) ==
    [index |-> index, phonemes |-> ps, currentTime |-> time, historyIndex |-> idx]

\* no 'Split in Half' timer is pending
NoTimer == SplitClosure(NoSel, <<>>, 0, -1)

MouthShapes == {"A", "B", "C", "D", "E", "F", "G", "H", "X"}

\* error === null
NoError == "<null>"

\* nothing has been downloaded
NoFile == <<>>

\* ProcessingResult: the fields the page and the editor read
DetectionResult(cues) == [phonemes |-> cues, duration |-> Duration]

\* result === null
NoResult == [phonemes |-> <<>>, duration |-> 0]

(* Inputs the handlers are tried with *)
RelabelShapes == {"C", "X"}
SeekTimes == {17, 20, Duration}
DragTimes == {10, 40}
EditedLens == {2}
Blobs == {1, 2}
ShapeToggles == {{}, {"G", "X"}, {"G", "H", "X"}}
Messages == {"Rhubarb processing failed: Command failed"}
Requests == {1, 2}
Formats == {"wav", "mp3"}

Seg(s, e, v) == [start |-> s, end |-> e, value |-> v]

Seeds ==
    { <<Seg(0, 15, "X"), Seg(15, 30, "B"), Seg(30, Duration, "A")>>,
      <<Seg(0, 30, "A"), Seg(30, Duration, "B")>>,
      <<Seg(0, Duration, "X")>> }

EditedSeed == <<Seg(0, 15, "X"), Seg(15, 30, "B"), Seg(30, Duration, "A")>>

(* Cue lists the detector answers with: a well-formed one, one with a gap  *)
(* and an overlap, and one that is not sorted                             *)
DetectorCues ==
    { <<Seg(0, 5, "X"), Seg(5, 50, "D"), Seg(50, Duration, "X")>>,
      <<Seg(0, 20, "A"), Seg(25, 60, "B"), Seg(50, Duration, "X")>>,
      <<Seg(40, Duration, "B"), Seg(0, 40, "A")>> }

Min(a, b) == IF a < b THEN a ELSE b

\* a file path: the directory, the timestamp or the upload's random name,
\* and the rest of the file name
TempPath(dir, name, kind) == [dir |-> dir, name |-> name, kind |-> kind]

\* dialogPath === null
NoPath == TempPath("none", -1, "")

\* a file: the request that wrote it and the request whose audio its content
\* was made from
File(writer, audio) == [writer |-> writer, audio |-> audio]

\* what a request has answered: nothing yet, an error, or the cues computed
\* from the audio of request audio
Answer(kind, audio) == [kind |-> kind, audio |-> audio]

\* a request that has not arrived
Idle ==
    [pc |-> "idle", gateway |-> "none", name |-> -1, format |-> "none",
     dialog |-> FALSE, answer |-> Answer("none", 0)]

----------------------------------------------------------------------------
(* Array helpers, as JavaScript computes them *)

\* arr.slice(0, k) for k >= 0
SliceTo(arr, k) == SubSeq(arr, 1, Min(k, Len(arr)))

\* arr.splice(i, n, ...items) : the resulting array (i is 0-based, in range)
Splice(arr, i, n, items) ==
    SubSeq(arr, 1, i) \o items \o SubSeq(arr, i + n + 1, Len(arr))

\* phonemes.findIndex(p => t >= p.start && t < p.end), -1 when none
FindIndex(ps, t) ==
    LET hits == {i \in 1..Len(ps) : t >= ps[i].start /\ t < ps[i].end}
    IN IF hits = {} THEN -1
       ELSE (CHOOSE i \in hits : \A j \in hits : i <= j) - 1

----------------------------------------------------------------------------
(* History manager *)

HistoryEntry(ps, description) == [phonemes |-> ps, description |-> description]

\* faulty variant of PushHistory: the redo entries are not removed before the push
PushHistoryKeepTail(prev, idx, newPhonemes, description) ==
    LET newHistory == Append(prev, HistoryEntry(newPhonemes, description))
    IN IF Len(newHistory) > HistoryCap THEN Tail(newHistory) ELSE newHistory

\* setHistory's updater inside addToHistory; idx is the historyIndex the
\* calling closure captured
PushHistory(prev, idx, newPhonemes, description) ==
    LET newHistory == Append(SliceTo(prev, idx + 1), HistoryEntry(newPhonemes, description))
    IN IF Len(newHistory) > HistoryCap THEN Tail(newHistory) ELSE newHistory

\* setHistoryIndex's updater inside addToHistory
BumpIndex(prev) == Min(prev + 1, HistoryMaxIndex)

\* the history variable: which of commit / undo / redo ran last, whether it
\* moved the cursor, the live sequence, cursor and history length it found,
\* and which of them ran before it
Ran(kind, moved) ==
    last' = [kind |-> kind, moved |-> moved, pre |-> phonemes,
             preIndex |-> historyIndex, preLen |-> Len(history),
             prevKind |-> last.kind]

\* addToHistory(newPhonemes, description) followed by onPhonemesChange(newPhonemes)
Commit(idx, newPhonemes, description) ==
    /\ nCommits < MaxCommits
    /\ history' = PushHistory(history, idx, newPhonemes, description)
    /\ historyIndex' = BumpIndex(historyIndex)
    /\ phonemes' = newPhonemes
    /\ nCommits' = nCommits + 1
    /\ Ran("commit", TRUE)

\* what an observer of the handlers records: which handler ran last and
\* whether it went through addToHistory
NotTried == [handler |-> "none", committed |-> FALSE]

Observed(handler) ==
    /\ tried' = [handler |-> handler, committed |-> (nCommits' = nCommits + 1)]
    /\ UNCHANGED <<staleEntries, resultShapes>>

Unobserved == UNCHANGED <<tried, staleEntries, resultShapes>>

\* a handler the observer does not record: its record is cleared
NotObserved == tried' = NotTried /\ UNCHANGED <<staleEntries, resultShapes>>

\* an editing handler or undo / redo where the sequence may be replaced by a
\* new detection result: a commit made at cursor historyIndex keeps the
\* entries up to the cursor, so at most that many stay from before the
\* replacement
Tracked(handler) ==
    /\ tried' = [handler |-> handler, committed |-> (nCommits' = nCommits + 1)]
    /\ staleEntries' = IF nCommits' = nCommits + 1
                       THEN Min(staleEntries, historyIndex + 1)
                       ELSE staleEntries
    /\ UNCHANGED resultShapes

\* a detection result has replaced the sequence: every entry of the history
\* was committed before it
Replaced ==
    /\ tried' = [handler |-> "processAudio return", committed |-> FALSE]
    /\ staleEntries' = Len(history)
    /\ UNCHANGED resultShapes

\* a detection result has replaced the sequence: it is the answer to the
\* oldest call in flight, made with that call's options
Produced ==
    /\ tried' = [handler |-> "processAudio return", committed |-> FALSE]
    /\ resultShapes' = pending[1].options.extendedShapes
    /\ UNCHANGED staleEntries

\* an early return of an editing handler
NoChange == UNCHANGED <<phonemes, history, historyIndex, nCommits, last>>

----------------------------------------------------------------------------
(* Initial state: the editor mounted on a detection result *)

\* the history after n relabels of segment 0, alternately to "C" and "X"
RelabelledSeed(seed, k) ==
    [seed EXCEPT ![1].value = IF k % 2 = 1 THEN "C" ELSE "X"]

PrefilledHistory(seed, n) ==
    [k \in 1..n |->
        HistoryEntry(RelabelledSeed(seed, k),
                     IF k % 2 = 1 THEN "Change to C" ELSE "Change to X")]

\* the page after the detection on the first audio has succeeded with the
\* cues seed, under the default settings
Detected(seed) ==
    /\ status = "success"
    /\ error = NoError
    /\ result = DetectionResult(seed)
    /\ processingRef = FALSE
    /\ pending = <<>>
    /\ extendedShapes = "GHX"
    /\ currentAudioBlob = 1
    /\ downloaded = NoFile
    /\ files = [path \in {} |-> File(0, 0)]
    /\ requests = [r \in Requests |-> Idle]
    /\ clock = 0
    /\ exportedShapes = [time \in {} |-> "X"]
    /\ splitTimer = NoTimer

\* the editor as it is after n relabels of segment 0 of a fresh seed
Mounted(seed, n) ==
    /\ phonemes = IF n = 0 THEN seed ELSE RelabelledSeed(seed, n)
    /\ history = PrefilledHistory(seed, n)
    /\ historyIndex = n - 1
    /\ selectedSegmentId = IF n = 0 THEN NoSel ELSE 0
    /\ selectedBoundaryIndex = NoSel
    /\ currentTime = 0
    /\ dragPhonemes = seed
    /\ dragHistoryIndex = -1
    /\ last = [kind |-> IF n = 0 THEN "mount" ELSE "commit", moved |-> n > 0,
               pre |-> IF n <= 1 THEN seed ELSE RelabelledSeed(seed, n - 1),
               preIndex |-> IF n = 0 THEN -1 ELSE n - 2,
               preLen |-> IF n = 0 THEN 0 ELSE n - 1,
               prevKind |-> IF n <= 1 THEN "mount" ELSE "commit"]
    /\ nCommits = 0
    /\ isPlaying = FALSE
    /\ playbackIsPlaying = FALSE
    /\ playbackCurrentTime = 0
    /\ activePlayer = "none"
    /\ contextMenu = NoMenu
    /\ tried = NotTried
    /\ staleEntries = 0
    /\ resultShapes = "GHX"
    /\ Detected(seed)

\* freshly mounted on a detection result, in a build that detects through
\* the server action
Init == \E seed \in Seeds : Mounted(seed, 0) /\ rhubarbApiUrl = FALSE

\* mounted, then segment 0 relabelled n times
InitEdited == \E n \in EditedLens : Mounted(EditedSeed, n) /\ rhubarbApiUrl = FALSE

\* freshly mounted on a detection result, in a build of either kind
InitDetection == Mounted(EditedSeed, 0) /\ rhubarbApiUrl \in BOOLEAN

----------------------------------------------------------------------------
(* Undo / redo *)

Undo ==
    /\ IF historyIndex > 0
       THEN /\ historyIndex' = historyIndex - 1
            \* history[historyIndex - 1].phonemes throws when the entry is
            \* missing: the index update is already queued, the sequence stays
            /\ phonemes' = IF historyIndex <= Len(history)
                           THEN history[historyIndex].phonemes
                           ELSE phonemes
       ELSE UNCHANGED <<historyIndex, phonemes>>
    /\ Ran("undo", historyIndex > 0)
    /\ UNCHANGED <<history, selectedSegmentId, selectedBoundaryIndex, currentTime,
                   dragPhonemes, dragHistoryIndex, nCommits, contextMenu, transportVars,
                   detectVars>>

\* faulty variant of RedoSnapshot: the entry at the cursor, not the one after it
RedoSnapshotAtCursor(h, idx) == h[idx + 1].phonemes

\* history[historyIndex + 1].phonemes
RedoSnapshot(h, idx) == h[idx + 2].phonemes

Redo ==
    /\ IF historyIndex < Len(history) - 1
       THEN /\ historyIndex' = historyIndex + 1
            /\ phonemes' = RedoSnapshot(history, historyIndex)
       ELSE UNCHANGED <<historyIndex, phonemes>>
    /\ Ran("redo", historyIndex < Len(history) - 1)
    /\ UNCHANGED <<history, selectedSegmentId, selectedBoundaryIndex, currentTime,
                   dragPhonemes, dragHistoryIndex, nCommits, contextMenu, transportVars,
                   detectVars>>

----------------------------------------------------------------------------
(* Segment model: the sequences the handlers build *)

\* handleSegmentDrag: newPhonemes for a drag of segment index reported as [s, e]
ResizeResult(ps, index, s, e) ==
    LET i == index + 1
        moved == [ps EXCEPT ![i] = [@ EXCEPT !.start = s, !.end = e]]
        left == IF index > 0 /\ moved[i].start < moved[i - 1].end
                THEN [moved EXCEPT ![i - 1] = [@ EXCEPT !.end = moved[i].start]]
                ELSE moved
    IN IF index < Len(left) - 1 /\ left[i].end > left[i + 1].start
       THEN [left EXCEPT ![i + 1] = [@ EXCEPT !.start = left[i].end]]
       ELSE left

\* faulty variant of SplitResult: the right-hand piece starts where the
\* original segment started
SplitResultOverlapping(ps, segmentIndex, splitTime) ==
    LET segment == ps[segmentIndex + 1]
    IN Splice(ps, segmentIndex, 1,
              << Seg(segment.start, splitTime, segment.value),
                 Seg(segment.start, segment.end, segment.value) >>)

\* splitAtPlayhead: newPhonemes for a split of segment segmentIndex at splitTime
SplitResult(ps, segmentIndex, splitTime) ==
    LET segment == ps[segmentIndex + 1]
    IN Splice(ps, segmentIndex, 1,
              << Seg(segment.start, splitTime, segment.value),
                 Seg(splitTime, segment.end, segment.value) >>)

\* faulty variant of TooCloseToEdges: only the distance to the end is tested
TooCloseToEdgesEndOnly(segment, splitTime) ==
    segment.end - splitTime < SplitGuard

\* splitAtPlayhead: the anti-degenerate guard
TooCloseToEdges(segment, splitTime) ==
    splitTime - segment.start < SplitGuard \/ segment.end - splitTime < SplitGuard

\* faulty variant of DeleteResult: no neighbour is extended over the gap
DeleteResultNoFill(ps, index) == Splice(ps, index, 1, <<>>)

\* deleteSegment: newPhonemes after removing segment index and filling the gap
DeleteResult(ps, index) ==
    LET deleted == ps[index + 1]
        removed == Splice(ps, index, 1, <<>>)
    IN IF index > 0
       THEN [removed EXCEPT ![index] = [@ EXCEPT !.end = deleted.end]]
       ELSE IF Len(removed) > 0
            THEN [removed EXCEPT ![1] = [@ EXCEPT !.start = deleted.start]]
            ELSE removed

\* faulty variant of MergeResult: the merged segment ends where the current
\* segment ended
MergeResultCurrentEnd(ps, index) ==
    LET current == ps[index + 1]
    IN Splice(ps, index, 2, << Seg(current.start, current.end, current.value) >>)

\* mergeWithNext: newPhonemes after merging index and index + 1
MergeResult(ps, index) ==
    LET current == ps[index + 1]
        next == ps[index + 2]
    IN Splice(ps, index, 2, << Seg(current.start, next.end, current.value) >>)

\* faulty variant of BoundaryMergeResult: the right segment's shape is kept
BoundaryMergeResultRightLabel(ps, boundaryIndex) ==
    LET left == ps[boundaryIndex + 1]
        right == ps[boundaryIndex + 2]
    IN Splice(ps, boundaryIndex, 2, << Seg(left.start, right.end, right.value) >>)

\* deleteBoundary: newPhonemes after merging the segments on either side of
\* boundary boundaryIndex
BoundaryMergeResult(ps, boundaryIndex) ==
    LET left == ps[boundaryIndex + 1]
        right == ps[boundaryIndex + 2]
    IN Splice(ps, boundaryIndex, 2, << Seg(left.start, right.end, left.value) >>)

\* changeSelectedShape: newPhonemes after relabelling segment index
RelabelResult(ps, index, newShape) ==
    [ps EXCEPT ![index + 1] = [@ EXCEPT !.value = newShape]]

----------------------------------------------------------------------------
(* Editing handlers *)

\* segments.dragend -> handleSegmentDrag(event).  The widget shows the live
\* sequence (the sync effect re-adds the segments on every change), so the
\* event carries segment index of the live sequence with one marker dragged
\* to t and start < end.  The listener is registered by the effect that
\* depends on [audioUrl] only, so it runs the handleSegmentDrag of the render
\* that registered it: that handler reads the phonemes of that render
\* (dragPhonemes) and calls the addToHistory that captured the historyIndex
\* of that render (dragHistoryIndex); setHistoryIndex's updater still sees
\* the current cursor.
HandleSegmentDrag(index, startMarker, t) ==
    LET shown == phonemes[index + 1]
        s == IF startMarker THEN t ELSE shown.start
        e == IF startMarker THEN shown.end ELSE t
    IN /\ s < e
       /\ IF index >= Len(dragPhonemes)
          THEN NoChange
          ELSE /\ Commit(dragHistoryIndex, ResizeResult(dragPhonemes, index, s, e),
                         "Resize segment")
       /\ UNCHANGED <<selectedSegmentId, selectedBoundaryIndex, currentTime,
                      dragPhonemes, dragHistoryIndex, contextMenu, transportVars,
                      detectVars>>

\* faulty variant of ChangeSelectedShape: a selected index past the end is
\* taken to mean the last segment
ChangeSelectedShapeClamped(newShape) ==
    /\ IF selectedSegmentId = NoSel
       THEN NoChange
       ELSE /\ Commit(historyIndex,
                      RelabelResult(phonemes, Min(selectedSegmentId, Len(phonemes) - 1),
                                    newShape),
                      "Change to " \o newShape)
    /\ UNCHANGED <<selectedSegmentId, selectedBoundaryIndex, currentTime,
                   dragPhonemes, dragHistoryIndex, contextMenu, transportVars,
                   detectVars>>

ChangeSelectedShape(newShape) ==
    /\ IF selectedSegmentId = NoSel \/ selectedSegmentId >= Len(phonemes)
       THEN NoChange
       ELSE /\ Commit(historyIndex, RelabelResult(phonemes, selectedSegmentId, newShape),
                      "Change to " \o newShape)
    /\ UNCHANGED <<selectedSegmentId, selectedBoundaryIndex, currentTime,
                   dragPhonemes, dragHistoryIndex, contextMenu, transportVars,
                   detectVars>>

SplitAtPlayhead ==
    LET segmentIndex == FindIndex(phonemes, currentTime)
    IN IF segmentIndex = -1
       THEN /\ NoChange
            /\ UNCHANGED <<selectedSegmentId, selectedBoundaryIndex, currentTime,
                           dragPhonemes, dragHistoryIndex, contextMenu, transportVars,
                           detectVars>>
       ELSE IF TooCloseToEdges(phonemes[segmentIndex + 1], currentTime)
       THEN /\ NoChange
            /\ UNCHANGED <<selectedSegmentId, selectedBoundaryIndex, currentTime,
                           dragPhonemes, dragHistoryIndex, contextMenu, transportVars,
                           detectVars>>
       ELSE /\ Commit(historyIndex, SplitResult(phonemes, segmentIndex, currentTime),
                      "Split segment")
            /\ selectedSegmentId' = segmentIndex + 1
            /\ UNCHANGED <<selectedBoundaryIndex, currentTime, dragPhonemes,
                           dragHistoryIndex, contextMenu, transportVars, detectVars>>

\* faulty variant of DeleteSegment: the only segment may be deleted
DeleteSegmentOfSingleton(segmentId) ==
    LET index == IF segmentId # NoSel THEN segmentId ELSE selectedSegmentId
    IN IF index = NoSel \/ index >= Len(phonemes)
       THEN /\ NoChange
            /\ UNCHANGED <<selectedSegmentId, selectedBoundaryIndex, currentTime,
                           dragPhonemes, dragHistoryIndex, contextMenu, transportVars,
                           detectVars>>
       ELSE /\ Commit(historyIndex, DeleteResult(phonemes, index), "Delete segment")
            /\ selectedSegmentId' = NoSel
            /\ contextMenu' = NoMenu
            /\ UNCHANGED <<selectedBoundaryIndex, currentTime, dragPhonemes,
                           dragHistoryIndex, transportVars, detectVars>>

\* deleteSegment(segmentId?): segmentId is NoSel when the selection is the target
DeleteSegment(segmentId) ==
    LET index == IF segmentId # NoSel THEN segmentId ELSE selectedSegmentId
    IN IF index = NoSel \/ index >= Len(phonemes) \/ Len(phonemes) <= 1
       THEN /\ NoChange
            /\ UNCHANGED <<selectedSegmentId, selectedBoundaryIndex, currentTime,
                           dragPhonemes, dragHistoryIndex, contextMenu, transportVars,
                           detectVars>>
       ELSE /\ Commit(historyIndex, DeleteResult(phonemes, index), "Delete segment")
            /\ selectedSegmentId' = NoSel
            /\ contextMenu' = NoMenu
            /\ UNCHANGED <<selectedBoundaryIndex, currentTime, dragPhonemes,
                           dragHistoryIndex, transportVars, detectVars>>

MergeWithNext ==
    /\ IF selectedSegmentId = NoSel \/ selectedSegmentId >= Len(phonemes) - 1
       THEN NoChange
       ELSE /\ Commit(historyIndex, MergeResult(phonemes, selectedSegmentId),
                      "Merge segments")
    /\ UNCHANGED <<selectedSegmentId, selectedBoundaryIndex, currentTime,
                   dragPhonemes, dragHistoryIndex, contextMenu, transportVars,
                   detectVars>>

DeleteBoundary(boundaryIndex) ==
    IF boundaryIndex < 0 \/ boundaryIndex >= Len(phonemes) - 1
    THEN /\ NoChange
         /\ UNCHANGED <<selectedSegmentId, selectedBoundaryIndex, currentTime,
                        dragPhonemes, dragHistoryIndex, contextMenu, transportVars,
                        detectVars>>
    ELSE /\ Commit(historyIndex, BoundaryMergeResult(phonemes, boundaryIndex),
                   "Delete boundary (merge)")
         /\ selectedBoundaryIndex' = NoSel
         /\ contextMenu' = NoMenu
         /\ UNCHANGED <<selectedSegmentId, currentTime, dragPhonemes, dragHistoryIndex,
                        transportVars, detectVars>>

----------------------------------------------------------------------------
(* Selection and play-head *)

\* segments.click
ClickSegment(index) ==
    /\ selectedSegmentId' = index
    /\ selectedBoundaryIndex' = NoSel
    /\ UNCHANGED <<phonemes, history, historyIndex, currentTime, dragPhonemes,
                   dragHistoryIndex, nCommits, last, contextMenu, transportVars,
                   detectVars>>

\* click on the divider between segment index and index + 1
ClickBoundary(index) ==
    /\ selectedBoundaryIndex' = index
    /\ selectedSegmentId' = NoSel
    /\ UNCHANGED <<phonemes, history, historyIndex, currentTime, dragPhonemes,
                   dragHistoryIndex, nCommits, last, contextMenu, transportVars,
                   detectVars>>

\* segments.mousedown with the right button on segment index
RightClickSegment(index) ==
    /\ selectedSegmentId' = index
    /\ selectedBoundaryIndex' = NoSel
    /\ contextMenu' = Menu("segment", index)
    /\ UNCHANGED <<phonemes, history, historyIndex, currentTime, dragPhonemes,
                   dragHistoryIndex, nCommits, last, transportVars, detectVars>>

\* onContextMenu of the zoom view near the boundary after segment index
RightClickBoundary(index) ==
    /\ index < Len(phonemes) - 1
    /\ selectedBoundaryIndex' = index
    /\ selectedSegmentId' = NoSel
    /\ contextMenu' = Menu("boundary", index)
    /\ UNCHANGED <<phonemes, history, historyIndex, currentTime, dragPhonemes,
                   dragHistoryIndex, nCommits, last, transportVars, detectVars>>

\* a click on the backdrop of the menu, or anywhere while the menu is open
CloseContextMenu ==
    /\ contextMenu # NoMenu
    /\ contextMenu' = NoMenu
    /\ UNCHANGED <<phonemes, history, historyIndex, selectedSegmentId,
                   selectedBoundaryIndex, currentTime, dragPhonemes, dragHistoryIndex,
                   nCommits, last, transportVars, detectVars>>

\* faulty variant of MenuRelabelResult: the whole segment is replaced by one
\* that starts and ends at the segment's start
MenuRelabelResultCollapsed(ps, index, shape) ==
    [ps EXCEPT ![index + 1] = Seg(@.start, @.start, shape)]

\* the Change Shape buttons of the segment menu: newPhonemes
MenuRelabelResult(ps, index, shape) ==
    [ps EXCEPT ![index + 1] = [@ EXCEPT !.value = shape]]

\* a Change Shape button of the segment menu; the menu is rendered only
\* while phonemes[index] exists
MenuRelabel(shape) ==
    /\ contextMenu.type = "segment"
    /\ contextMenu.index < Len(phonemes)
    /\ Commit(historyIndex, MenuRelabelResult(phonemes, contextMenu.index, shape),
              "Change to " \o shape)
    /\ contextMenu' = NoMenu
    /\ UNCHANGED <<selectedSegmentId, selectedBoundaryIndex, currentTime,
                   dragPhonemes, dragHistoryIndex, transportVars, detectVars>>

\* the Split in Half button of the segment menu, on a segment whose midpoint
\* is a whole tick and while no earlier timer is pending: the selection, the
\* seek to the midpoint (player.timeupdate sets currentTime), and
\* setTimeout(() => splitAtPlayhead(), 50) with the splitAtPlayhead of the
\* render the menu was drawn in
MenuSplitInHalf ==
    /\ contextMenu.type = "segment"
    /\ contextMenu.index < Len(phonemes)
    /\ splitTimer = NoTimer
    /\ LET segment == phonemes[contextMenu.index + 1]
       IN /\ (segment.end - segment.start) % 2 = 0
          /\ currentTime' = segment.start + (segment.end - segment.start) \div 2
    /\ selectedSegmentId' = contextMenu.index
    /\ splitTimer' = SplitClosure(contextMenu.index, phonemes, currentTime, historyIndex)
    /\ contextMenu' = NoMenu
    /\ NoChange
    /\ UNCHANGED <<selectedBoundaryIndex, dragPhonemes, dragHistoryIndex, transportVars,
                   status, error, result, processingRef, pending, extendedShapes,
                   currentAudioBlob, rhubarbApiUrl, downloaded, files, requests, clock,
                   exportedShapes>>

\* the timer of Split in Half fires: splitAtPlayhead with the phonemes, the
\* currentTime and the addToHistory it captured
SplitTimerFires ==
    /\ splitTimer # NoTimer
    /\ splitTimer' = NoTimer
    /\ LET segmentIndex == FindIndex(splitTimer.phonemes, splitTimer.currentTime)
       IN IF segmentIndex = -1
          THEN NoChange /\ UNCHANGED selectedSegmentId
          ELSE IF TooCloseToEdges(splitTimer.phonemes[segmentIndex + 1],
                                  splitTimer.currentTime)
          THEN NoChange /\ UNCHANGED selectedSegmentId
          ELSE /\ Commit(splitTimer.historyIndex,
                         SplitResult(splitTimer.phonemes, segmentIndex,
                                     splitTimer.currentTime),
                         "Split segment")
               /\ selectedSegmentId' = segmentIndex + 1
    /\ UNCHANGED <<selectedBoundaryIndex, currentTime, dragPhonemes, dragHistoryIndex,
                   contextMenu, transportVars, status, error, result, processingRef,
                   pending, extendedShapes, currentAudioBlob, rhubarbApiUrl, downloaded,
                   files, requests, clock, exportedShapes>>

\* goToPrevSegment.  player.seek(t) is followed by player.timeupdate, which
\* sets currentTime; phonemes[index - 1].start throws when that segment does
\* not exist, after the selection update was queued
GoToPrevSegment ==
    /\ IF selectedSegmentId = NoSel
       THEN /\ selectedSegmentId' = IF Len(phonemes) > 0 THEN 0 ELSE NoSel
            /\ UNCHANGED currentTime
       ELSE IF selectedSegmentId > 0
       THEN /\ selectedSegmentId' = selectedSegmentId - 1
            /\ currentTime' = IF selectedSegmentId - 1 < Len(phonemes)
                              THEN phonemes[selectedSegmentId].start
                              ELSE currentTime
       ELSE UNCHANGED <<selectedSegmentId, currentTime>>
    /\ UNCHANGED <<phonemes, history, historyIndex, selectedBoundaryIndex,
                   dragPhonemes, dragHistoryIndex, nCommits, last, contextMenu,
                   transportVars, detectVars>>

\* goToNextSegment
GoToNextSegment ==
    /\ IF selectedSegmentId = NoSel
       THEN /\ selectedSegmentId' = IF Len(phonemes) > 0 THEN 0 ELSE NoSel
            /\ UNCHANGED currentTime
       ELSE IF selectedSegmentId < Len(phonemes) - 1
       THEN /\ selectedSegmentId' = selectedSegmentId + 1
            /\ currentTime' = phonemes[selectedSegmentId + 2].start
       ELSE UNCHANGED <<selectedSegmentId, currentTime>>
    /\ UNCHANGED <<phonemes, history, historyIndex, selectedBoundaryIndex,
                   dragPhonemes, dragHistoryIndex, nCommits, last, contextMenu,
                   transportVars, detectVars>>

\* seek(time) -> player.timeupdate -> setCurrentTime(time)
Seek(time) ==
    /\ currentTime' = time
    /\ UNCHANGED <<phonemes, history, historyIndex, selectedSegmentId,
                   selectedBoundaryIndex, dragPhonemes, dragHistoryIndex, nCommits, last,
                   contextMenu, transportVars, detectVars>>

----------------------------------------------------------------------------
(* The two transports: the editor's player (detail) and the page's audio  *)
(* (overview timeline)                                                    *)

\* togglePlayPause of the editor: player.play() / player.pause(), then the
\* player.playing / player.pause listener sets isPlaying.  PhonemeEditor has
\* no onPlayStateChange prop, so the page is not told
TogglePlayPause ==
    /\ isPlaying' = ~isPlaying
    /\ UNCHANGED <<phonemes, history, historyIndex, selectedSegmentId,
                   selectedBoundaryIndex, currentTime, dragPhonemes, dragHistoryIndex,
                   nCommits, last, contextMenu, playbackIsPlaying, playbackCurrentTime,
                   activePlayer, detectVars>>

\* handleTimelinePlayPause: setActivePlayer, then playback.togglePlayPause()
HandleTimelinePlayPause ==
    /\ activePlayer' = IF ~playbackIsPlaying THEN "timeline" ELSE "none"
    /\ playbackIsPlaying' = ~playbackIsPlaying
    /\ UNCHANGED <<phonemes, history, historyIndex, selectedSegmentId,
                   selectedBoundaryIndex, currentTime, dragPhonemes, dragHistoryIndex,
                   nCommits, last, contextMenu, isPlaying, playbackCurrentTime,
                   detectVars>>

\* onSeek of the timeline: playback.seek(time), clamped to the duration
TimelineSeek(time) ==
    /\ playbackCurrentTime' = IF time < 0 THEN 0 ELSE Min(time, Duration)
    /\ UNCHANGED <<phonemes, history, historyIndex, selectedSegmentId,
                   selectedBoundaryIndex, currentTime, dragPhonemes, dragHistoryIndex,
                   nCommits, last, contextMenu, isPlaying, playbackIsPlaying,
                   activePlayer, detectVars>>

\* the 'ended' listener of the page's audio
TimelineEnded ==
    /\ playbackIsPlaying
    /\ playbackIsPlaying' = FALSE
    /\ playbackCurrentTime' = 0
    /\ UNCHANGED <<phonemes, history, historyIndex, selectedSegmentId,
                   selectedBoundaryIndex, currentTime, dragPhonemes, dragHistoryIndex,
                   nCommits, last, contextMenu, isPlaying, activePlayer, detectVars>>

\* faulty variant of PlayerTimeUpdate: the time is also written to the page's
\* play-head, whichever player is the active one
PlayerTimeUpdateMirrored(time) ==
    /\ isPlaying
    /\ time > currentTime
    /\ currentTime' = time
    /\ playbackCurrentTime' = IF time < 0 THEN 0 ELSE Min(time, Duration)
    /\ UNCHANGED <<phonemes, history, historyIndex, selectedSegmentId,
                   selectedBoundaryIndex, dragPhonemes, dragHistoryIndex, nCommits, last,
                   contextMenu, isPlaying, playbackIsPlaying, activePlayer, detectVars>>

\* the player.timeupdate listener of the editor while its player plays and
\* the time advances: setCurrentTime(time).  PhonemeEditor has no
\* onTimeUpdate prop, so the page's handleEditorTimeUpdate is not called
PlayerTimeUpdate(time) ==
    /\ isPlaying
    /\ time > currentTime
    /\ currentTime' = time
    /\ UNCHANGED <<phonemes, history, historyIndex, selectedSegmentId,
                   selectedBoundaryIndex, dragPhonemes, dragHistoryIndex, nCommits, last,
                   contextMenu, transportVars, detectVars>>

----------------------------------------------------------------------------
(* Detection: the interchange JSON, the detector's command line, the      *)
(* useAudioProcessor hook and the page's handlers around it               *)

\* the number literal of a JSON text: its whole part and the digits after
\* the point
Literal(whole, frac) == [whole |-> whole, frac |-> frac]

\* the detector writes times with two decimals
TwoDecimals(ticks) == Literal(ticks \div 100, <<(ticks % 100) \div 10, ticks % 10>>)

\* the mouthCues of the detector's JSON for the cues cs
DetectorJSON(cs) ==
    [i \in 1..Len(cs) |->
        [start |-> TwoDecimals(cs[i].start), end |-> TwoDecimals(cs[i].end),
         value |-> cs[i].value]]

\* JSON.parse of a number literal: the number it denotes, in ticks
ParseNumber(lit) ==
    lit.whole * 100
        + (IF Len(lit.frac) >= 1 THEN lit.frac[1] * 10 ELSE 0)
        + (IF Len(lit.frac) >= 2 THEN lit.frac[2] ELSE 0)

\* faulty variant of FormatNumber: the digits after the point lose their
\* leading zero
FormatNumberNoLeadingZero(ticks) ==
    LET tenths == (ticks % 100) \div 10
        hundredths == ticks % 10
    IN Literal(ticks \div 100,
               IF tenths # 0 /\ hundredths # 0 THEN <<tenths, hundredths>>
               ELSE IF tenths # 0 THEN <<tenths>>
               ELSE IF hundredths # 0 THEN <<hundredths>>
               ELSE <<>>)

\* JSON.stringify of a number: the shortest literal that denotes it
FormatNumber(ticks) ==
    LET tenths == (ticks % 100) \div 10
        hundredths == ticks % 10
    IN Literal(ticks \div 100,
               IF hundredths # 0 THEN <<tenths, hundredths>>
               ELSE IF tenths # 0 THEN <<tenths>>
               ELSE <<>>)

\* result.mouthCues.map(cue => ({start, end, value})) on the parsed JSON
ParseCues(mouthCues) ==
    [i \in 1..Len(mouthCues) |->
        Seg(ParseNumber(mouthCues[i].start), ParseNumber(mouthCues[i].end),
            mouthCues[i].value)]

\* exportPhonemeJSON(phonemes, duration)
ExportPhonemeJSON(ps, duration) ==
    [metadata |-> [soundFile |-> "audio.wav", duration |-> FormatNumber(duration)],
     mouthCues |->
        [i \in 1..Len(ps) |->
            [start |-> FormatNumber(ps[i].start), end |-> FormatNumber(ps[i].end),
             value |-> ps[i].value]]]

\* an option that was not given (undefined)
Undefined == "<undefined>"

\* handleApply of the Settings dialog: the letters of the shapes toggled on
ShapesString(localShapes) ==
    (IF "G" \in localShapes THEN "G" ELSE "")
        \o (IF "H" \in localShapes THEN "H" ELSE "")
        \o (IF "X" \in localShapes THEN "X" ELSE "")

\* processViaExternalAPI: the extendedShapes field of the form, appended only
\* if the option is truthy
FormField(options) ==
    IF options.extendedShapes # Undefined /\ options.extendedShapes # ""
    THEN options.extendedShapes
    ELSE Undefined

\* the /process route of the server: req.body.extendedShapes || 'GHX'
ServerExtendedShapes(field) == IF field = Undefined \/ field = "" THEN "GHX" ELSE field

\* processViaServerAction and processWithRealRhubarb:
\* options?.extendedShapes ?? 'GHX'
ActionExtendedShapes(options) ==
    IF options.extendedShapes = Undefined THEN "GHX" ELSE options.extendedShapes

\* the words the shell makes of cmd: `--extendedShapes ${extendedShapes}`
\* followed by -o and the paths, joined by blanks
CommandWords(extended) ==
    <<"rhubarb", "-f", "json", "--extendedShapes">>
        \o (IF extended = "" THEN <<>> ELSE <<extended>>)
        \o <<"-o", "output.json", "audio.wav">>

\* the word that follows an option on the command line: the value the
\* detector reads for it
OptionValue(words, option) ==
    words[(CHOOSE i \in 1..Len(words) : words[i] = option) + 1]

\* the value of --extendedShapes the detector is run with, for a call with
\* options in a build with (external API) or without (server action) the URL
DetectorExtendedShapes(apiUrl, options) ==
    OptionValue(CommandWords(IF apiUrl
                             THEN ServerExtendedShapes(FormField(options))
                             ELSE ActionExtendedShapes(options)),
                "--extendedShapes")

\* a detection call in flight: its audio, its options and the value of
\* --extendedShapes the detector was started with
Call(blob, options) ==
    [blob |-> blob, options |-> options,
     detector |-> DetectorExtendedShapes(rhubarbApiUrl, options)]

\* faulty variant of ProcessAudio: no re-entrancy guard
ProcessAudioUnguarded(blob, options) ==
    /\ processingRef' = TRUE
    /\ status' = "processing"
    /\ error' = NoError
    /\ pending' = Append(pending, Call(blob, options))
    /\ UNCHANGED result

\* processAudio(blob, _inputMethod, options) up to its await
ProcessAudio(blob, options) ==
    IF processingRef
    THEN UNCHANGED <<status, error, result, processingRef, pending>>
    ELSE /\ processingRef' = TRUE
         /\ status' = "processing"
         /\ error' = NoError
         /\ pending' = Append(pending, Call(blob, options))
         /\ UNCHANGED result

\* what no handler of the detection touches
EditorUntouched ==
    UNCHANGED <<history, historyIndex, selectedSegmentId, selectedBoundaryIndex,
                currentTime, nCommits, contextMenu, activePlayer, files, requests,
                clock, exportedShapes, splitTimer>>

\* handleAudioReady(blob, method) up to its await
HandleAudioReady(blob) ==
    /\ currentAudioBlob' = blob
    /\ ProcessAudio(blob, [extendedShapes |-> extendedShapes])
    /\ EditorUntouched
    /\ UNCHANGED <<phonemes, dragPhonemes, dragHistoryIndex, last, isPlaying,
                   playbackIsPlaying, playbackCurrentTime, extendedShapes,
                   rhubarbApiUrl, downloaded>>

\* handleApply of the Settings dialog -> handleSettingsChange(shapes) up to
\* its await; the page has an audio since the first detection
HandleApply(localShapes) ==
    LET newExtendedShapes == ShapesString(localShapes)
    IN /\ extendedShapes' = newExtendedShapes
       /\ ProcessAudio(currentAudioBlob, [extendedShapes |-> newExtendedShapes])
       /\ EditorUntouched
       /\ UNCHANGED <<phonemes, dragPhonemes, dragHistoryIndex, last, isPlaying,
                      playbackIsPlaying, playbackCurrentTime, currentAudioBlob,
                      rhubarbApiUrl, downloaded>>

\* the detector answers the oldest call in flight with mouthCues: the rest of
\* processAudio (setResult, setStatus, finally) and then the rest of the
\* page's handler: playback.load(result.audioUrl), which pauses and rewinds
\* the page's audio, and setEditablePhonemes(result.phonemes).  The new
\* audioUrl re-runs the editor's Peaks effect, whose listeners capture the
\* phonemes and the historyIndex of that render; the editor stays mounted and
\* keeps its history, cursor and selection.  Whether the editor's player
\* reports that its audio stopped is decided outside this code
DetectionSucceeds(mouthCues) ==
    /\ pending # <<>>
    /\ result' = DetectionResult(ParseCues(mouthCues))
    /\ status' = "success"
    /\ processingRef' = FALSE
    /\ pending' = Tail(pending)
    /\ playbackIsPlaying' = FALSE
    /\ playbackCurrentTime' = 0
    /\ phonemes' = ParseCues(mouthCues)
    /\ dragPhonemes' = ParseCues(mouthCues)
    /\ dragHistoryIndex' = historyIndex
    /\ isPlaying' \in {isPlaying, FALSE}
    /\ EditorUntouched
    /\ UNCHANGED last
    /\ UNCHANGED <<error, extendedShapes, currentAudioBlob, rhubarbApiUrl, downloaded>>

\* faulty variant of DetectionFails: the finally block is missing, the guard
\* stays set
DetectionFailsGuardKept(message) ==
    /\ pending # <<>>
    /\ error' = message
    /\ status' = "error"
    /\ pending' = Tail(pending)
    /\ EditorUntouched
    /\ UNCHANGED <<phonemes, dragPhonemes, dragHistoryIndex, last, isPlaying,
                   playbackIsPlaying, playbackCurrentTime, result, extendedShapes,
                   currentAudioBlob, rhubarbApiUrl, downloaded, processingRef>>

\* the detector, the conversion or the waveform fails for the oldest call in
\* flight: the catch and finally of processAudio; the page's handler gets null
DetectionFails(message) ==
    /\ pending # <<>>
    /\ error' = message
    /\ status' = "error"
    /\ processingRef' = FALSE
    /\ pending' = Tail(pending)
    /\ EditorUntouched
    /\ UNCHANGED <<phonemes, dragPhonemes, dragHistoryIndex, last, isPlaying,
                   playbackIsPlaying, playbackCurrentTime, result, extendedShapes,
                   currentAudioBlob, rhubarbApiUrl, downloaded>>

\* reset() of useAudioProcessor: the state of the hook is cleared and the
\* guard is released, whether or not a call is in flight; the calls in
\* flight go on
Reset ==
    /\ status' = "idle"
    /\ error' = NoError
    /\ result' = NoResult
    /\ processingRef' = FALSE
    /\ EditorUntouched
    /\ UNCHANGED <<phonemes, dragPhonemes, dragHistoryIndex, last, isPlaying,
                   playbackIsPlaying, playbackCurrentTime, pending, extendedShapes,
                   currentAudioBlob, rhubarbApiUrl, downloaded>>

\* handleDownload of the results panel: the file holds jsonOutput
HandleDownload ==
    /\ downloaded' = ExportPhonemeJSON(phonemes, result.duration)
    /\ EditorUntouched
    /\ UNCHANGED <<phonemes, dragPhonemes, dragHistoryIndex, last, isPlaying,
                   playbackIsPlaying, playbackCurrentTime, status, error, result,
                   processingRef, pending, extendedShapes, currentAudioBlob,
                   rhubarbApiUrl>>

----------------------------------------------------------------------------
(* The two lookups of the mouth shape at a time: the video export's and   *)
(* the displays' (CharacterDisplay and MouthShapeDisplay)                  *)

\* getPhonemeAtTime(phonemes, time) of the video exporter
GetPhonemeAtTime(ps, time) ==
    LET index == FindIndex(ps, time)
    IN IF index = -1 THEN "X" ELSE ps[index + 1].value

\* currentPhoneme of the displays is null
NoPhoneme == Seg(-1, -1, "<null>")

\* currentPhoneme of CharacterDisplay and of MouthShapeDisplay
CurrentPhoneme(ps, time) ==
    IF Len(ps) = 0 THEN NoPhoneme
    ELSE IF FindIndex(ps, time) # -1 THEN ps[FindIndex(ps, time) + 1]
    ELSE ps[1]

\* currentShape of the displays: currentPhoneme?.value || 'X'
CurrentShape(ps, time) ==
    IF CurrentPhoneme(ps, time) = NoPhoneme THEN "X" ELSE CurrentPhoneme(ps, time).value

\* Math.ceil(duration * FRAME_RATE), the duration given in ticks
TotalFrames(duration) == (duration * FRAME_RATE + 99) \div 100

\* frameNumber / FRAME_RATE in ticks, for the frames whose timestamp is a
\* whole number of ticks
FrameTimes(duration) ==
    { (frameNumber * 100) \div FRAME_RATE :
        frameNumber \in {n \in 0..(TotalFrames(duration) - 1) :
                             (n * 100) % FRAME_RATE = 0} }

\* handleExportVideo -> exportVideo({audioBlob, phonemes, duration}): the
\* encode loop looks up the shape of every frame in the phonemes it was
\* called with
ExportVideo ==
    /\ exportedShapes' =
           [time \in FrameTimes(result.duration) |-> GetPhonemeAtTime(phonemes, time)]
    /\ UNCHANGED <<phonemes, history, historyIndex, selectedSegmentId,
                   selectedBoundaryIndex, currentTime, dragPhonemes, dragHistoryIndex,
                   last, nCommits, contextMenu, transportVars, status, error, result,
                   processingRef, pending, extendedShapes, currentAudioBlob,
                   rhubarbApiUrl, downloaded, files, requests, clock, splitTimer>>

----------------------------------------------------------------------------
(* The detection gateways: the server action processWithRealRhubarb, the   *)
(* /process route of rhubarb-server and the /api/process route of server,  *)
(* with the temporary files each request writes, reads and removes         *)

\* join(tempDir, `rhubarb-${timestamp}-original.${format}`)
OriginalPath(q) == TempPath("tmp", q.name, "-original." \o q.format)

\* join(tempDir, `rhubarb-${timestamp}.wav`)
WavPath(q) == TempPath("tmp", q.name, ".wav")

\* req.file.path: the file multer stored the upload in
UploadPath(q) == TempPath("uploads", q.name, "")

\* join(tempDir, `rhubarb-${timestamp}.json`), or `${audioPath}.json`
OutputPath(q) ==
    IF q.gateway = "apiProcess"
    THEN TempPath("uploads", q.name, ".json")
    ELSE TempPath("tmp", q.name, ".json")

\* join(tempDir, `rhubarb-${timestamp}.txt`) or `${audioPath}.txt` if a
\* dialog was sent, else null
DialogPath(q) ==
    IF ~q.dialog THEN NoPath
    ELSE IF q.gateway = "apiProcess"
    THEN TempPath("uploads", q.name, ".txt")
    ELSE TempPath("tmp", q.name, ".txt")

\* the audio file the detector is run on
AudioPathForRhubarb(q) ==
    IF q.gateway = "apiProcess" THEN UploadPath(q)
    ELSE IF q.format = "wav" THEN OriginalPath(q)
    ELSE WavPath(q)

\* the paths a request computes for itself
RequestPaths(q) ==
    (IF q.gateway = "apiProcess"
     THEN {UploadPath(q), OutputPath(q), DialogPath(q)}
     ELSE {OriginalPath(q), WavPath(q), OutputPath(q), DialogPath(q)}) \ {NoPath}

\* writeFile(path, ...) or a child process writing its output
Put(fs, path, file) ==
    [p \in DOMAIN fs \cup {path} |-> IF p = path THEN file ELSE fs[p]]

\* unlink(path).catch(() => {}) for every path of paths
UnlinkEach(fs, paths) == [p \in DOMAIN fs \ paths |-> fs[p]]

\* try { await unlink(p1); await unlink(p2); ... } catch: the first unlink
\* of a missing file throws and the remaining ones are skipped; a null path
\* is not unlinked
RECURSIVE UnlinkInOrder(_, _)
UnlinkInOrder(fs, paths) ==
    IF paths = <<>> THEN fs
    ELSE IF Head(paths) = NoPath THEN UnlinkInOrder(fs, Tail(paths))
    ELSE IF Head(paths) \notin DOMAIN fs THEN fs
    ELSE UnlinkInOrder([p \in DOMAIN fs \ {Head(paths)} |-> fs[p]], Tail(paths))

\* what no step of a gateway touches: the page and the editor
GatewayFrame ==
    UNCHANGED <<phonemes, history, historyIndex, selectedSegmentId,
                selectedBoundaryIndex, currentTime, dragPhonemes, dragHistoryIndex,
                last, nCommits, contextMenu, transportVars, status, error, result,
                processingRef, pending, extendedShapes, currentAudioBlob,
                rhubarbApiUrl, downloaded, exportedShapes, splitTimer>>

\* Date.now() advances by a millisecond
Tick ==
    /\ clock < MaxClock
    /\ clock' = clock + 1
    /\ UNCHANGED <<files, requests>>
    /\ GatewayFrame

\* a call of the server action or a POST to /process arrives with an audio
\* of the given format, with or without a dialog: timestamp = Date.now()
Arrive(r, gateway, format, dialog) ==
    /\ requests[r].pc = "idle"
    /\ requests' = [requests EXCEPT ![r] =
           [pc |-> "write", gateway |-> gateway, name |-> clock, format |-> format,
            dialog |-> dialog, answer |-> Answer("none", 0)]]
    /\ UNCHANGED <<files, clock>>
    /\ GatewayFrame

\* a POST to /api/process arrives: upload.single('audio') has stored the
\* audio under a random name of its own before the handler runs
ArriveUpload(r, dialog) ==
    /\ requests[r].pc = "idle"
    /\ LET q == [pc |-> "dialog", gateway |-> "apiProcess", name |-> r,
                 format |-> "upload", dialog |-> dialog, answer |-> Answer("none", 0)]
       IN /\ requests' = [requests EXCEPT ![r] = q]
          /\ files' = Put(files, UploadPath(q), File(r, r))
    /\ UNCHANGED clock
    /\ GatewayFrame

\* a POST to /process or /api/process without an audio: status 400, the
\* paths are still null in finally
NoAudio(r, gateway) ==
    /\ requests[r].pc = "idle"
    /\ requests' = [requests EXCEPT ![r] =
           [pc |-> "done", gateway |-> gateway, name |-> clock, format |-> "none",
            dialog |-> FALSE, answer |-> Answer("error", 0)]]
    /\ UNCHANGED <<files, clock>>
    /\ GatewayFrame

\* await writeFile(originalPath, audioBuffer)
WriteOriginal(r) ==
    LET q == requests[r]
    IN /\ q.pc = "write"
       /\ files' = Put(files, OriginalPath(q), File(r, r))
       /\ requests' = [requests EXCEPT ![r].pc =
                           IF q.format # "wav" THEN "convert" ELSE "dialog"]
       /\ UNCHANGED clock
       /\ GatewayFrame

\* await convertToWav(originalPath, wavPath): ffmpeg reads the file that is
\* at originalPath and writes wavPath
ConvertToWav(r) ==
    LET q == requests[r]
    IN /\ q.pc = "convert"
       /\ OriginalPath(q) \in DOMAIN files
       /\ files' = Put(files, WavPath(q), File(r, files[OriginalPath(q)].audio))
       /\ requests' = [requests EXCEPT ![r].pc = "dialog"]
       /\ UNCHANGED clock
       /\ GatewayFrame

\* await writeFile(dialogPath, dialog) if a dialog was sent, then the
\* command is built
WriteDialog(r) ==
    LET q == requests[r]
    IN /\ q.pc = "dialog"
       /\ files' = IF q.dialog THEN Put(files, DialogPath(q), File(r, r)) ELSE files
       /\ requests' = [requests EXCEPT ![r].pc = "run"]
       /\ UNCHANGED clock
       /\ GatewayFrame

\* await execAsync(cmd): the detector reads the audio file (and the dialog)
\* and writes outputPath
RunDetector(r) ==
    LET q == requests[r]
    IN /\ q.pc = "run"
       /\ AudioPathForRhubarb(q) \in DOMAIN files
       /\ q.dialog => DialogPath(q) \in DOMAIN files
       /\ files' = Put(files, OutputPath(q),
                       File(r, files[AudioPathForRhubarb(q)].audio))
       /\ requests' = [requests EXCEPT ![r].pc = "read"]
       /\ UNCHANGED clock
       /\ GatewayFrame

\* await readFile(outputPath), JSON.parse, and the answer
ReadOutput(r) ==
    LET q == requests[r]
    IN /\ q.pc = "read"
       /\ OutputPath(q) \in DOMAIN files
       /\ requests' = [requests EXCEPT ![r].pc = "cleanup",
                           ![r].answer = Answer("result", files[OutputPath(q)].audio)]
       /\ UNCHANGED <<files, clock>>
       /\ GatewayFrame

\* the awaited step throws: a write fails, ffmpeg is missing or fails, the
\* detector fails or exceeds its timeout, the output is missing or is not
\* JSON.  A converter or detector that fails may have written a part of its
\* output (partial).  The catch answers with an error
RequestFails(r, partial) ==
    LET q == requests[r]
    IN /\ q.pc \in {"write", "convert", "dialog", "run", "read"}
       /\ partial => q.pc \in {"convert", "run"}
       /\ files' = IF ~partial THEN files
                   ELSE IF q.pc = "convert" THEN Put(files, WavPath(q), File(r, r))
                   ELSE Put(files, OutputPath(q), File(r, r))
       /\ requests' = [requests EXCEPT ![r].pc = "cleanup",
                           ![r].answer = Answer("error", 0)]
       /\ UNCHANGED clock
       /\ GatewayFrame

\* the files left by the finally block of the gateway that handles q
AfterCleanup(fs, q) ==
    IF q.gateway = "apiProcess"
    THEN UnlinkInOrder(fs, <<UploadPath(q), OutputPath(q), DialogPath(q)>>)
    ELSE UnlinkEach(fs, {OriginalPath(q), WavPath(q), OutputPath(q), DialogPath(q)})

\* the finally block of the handler
Cleanup(r) ==
    /\ requests[r].pc = "cleanup"
    /\ files' = AfterCleanup(files, requests[r])
    /\ requests' = [requests EXCEPT ![r].pc = "done"]
    /\ UNCHANGED clock
    /\ GatewayFrame

Next ==
    \/ \E index \in 0..(Len(phonemes) - 1), startMarker \in BOOLEAN, t \in DragTimes :
            HandleSegmentDrag(index, startMarker, t) /\ Unobserved
    \/ \E newShape \in RelabelShapes : ChangeSelectedShape(newShape) /\ Unobserved
    \/ SplitAtPlayhead /\ Unobserved
    \/ \E segmentId \in {NoSel} \cup 0..(Len(phonemes) - 1) :
            DeleteSegment(segmentId) /\ Unobserved
    \/ MergeWithNext /\ Unobserved
    \/ \E boundaryIndex \in 0..(Len(phonemes) - 1) :
            DeleteBoundary(boundaryIndex) /\ Unobserved
    \/ Undo /\ Unobserved
    \/ Redo /\ Unobserved
    \/ \E index \in 0..(Len(phonemes) - 1) : ClickSegment(index) /\ Unobserved
    \/ \E time \in SeekTimes : Seek(time) /\ Unobserved

Spec == Init /\ [][Next]_vars

SpecEdited == InitEdited /\ [][Next]_vars

\* the editing handlers, each recorded by the observer, with the gestures
\* that select a segment and move the play-head
NextObserved ==
    \/ \E index \in 0..(Len(phonemes) - 1), startMarker \in BOOLEAN, t \in DragTimes :
            HandleSegmentDrag(index, startMarker, t) /\ Observed("handleSegmentDrag")
    \/ \E newShape \in RelabelShapes :
            ChangeSelectedShape(newShape) /\ Observed("changeSelectedShape")
    \/ SplitAtPlayhead /\ Observed("splitAtPlayhead")
    \/ \E segmentId \in {NoSel} \cup 0..(Len(phonemes) - 1) :
            DeleteSegment(segmentId) /\ Observed("deleteSegment")
    \/ MergeWithNext /\ Observed("mergeWithNext")
    \/ \E boundaryIndex \in 0..(Len(phonemes) - 1) :
            DeleteBoundary(boundaryIndex) /\ Observed("deleteBoundary")
    \/ \E index \in 0..(Len(phonemes) - 1) : ClickSegment(index) /\ NotObserved
    \/ \E time \in SeekTimes : Seek(time) /\ NotObserved

SpecObserved == Init /\ [][NextObserved]_vars

\* selection and navigation: the clicks that select, previous / next, and
\* the edits that change the number of segments under a selection, each
\* recorded by the observer
NextSelection ==
    \/ \E index \in 0..(Len(phonemes) - 1) : ClickSegment(index) /\ NotObserved
    \/ \E index \in 0..(Len(phonemes) - 2) : ClickBoundary(index) /\ NotObserved
    \/ GoToPrevSegment /\ Observed("goToPrevSegment")
    \/ GoToNextSegment /\ Observed("goToNextSegment")
    \/ SplitAtPlayhead /\ Observed("splitAtPlayhead")
    \/ \E boundaryIndex \in 0..(Len(phonemes) - 1) :
            DeleteBoundary(boundaryIndex) /\ Observed("deleteBoundary")
    \/ \E time \in SeekTimes : Seek(time) /\ NotObserved

SpecSelection == Init /\ [][NextSelection]_vars

\* the context menus of a segment and of a boundary, with the relabel of
\* the selected segment from the shape palette, recorded by the observer
NextMenu ==
    \/ \E index \in 0..(Len(phonemes) - 1) : ClickSegment(index) /\ NotObserved
    \/ \E index \in 0..(Len(phonemes) - 1) : RightClickSegment(index) /\ NotObserved
    \/ \E index \in 0..(Len(phonemes) - 2) : RightClickBoundary(index) /\ NotObserved
    \/ CloseContextMenu /\ NotObserved
    \/ \E shape \in RelabelShapes : MenuRelabel(shape) /\ Observed("menuRelabel")
    \/ \E newShape \in RelabelShapes :
            ChangeSelectedShape(newShape) /\ Observed("changeSelectedShape")

SpecMenu == Init /\ [][NextMenu]_vars

\* play / pause on the two transports, with the seeks of both and the time
\* updates of the editor's player, recorded by the observer
NextTransport ==
    \/ TogglePlayPause /\ NotObserved
    \/ HandleTimelinePlayPause /\ NotObserved
    \/ \E time \in SeekTimes : TimelineSeek(time) /\ NotObserved
    \/ TimelineEnded /\ NotObserved
    \/ \E time \in SeekTimes : Seek(time) /\ NotObserved
    \/ \E time \in SeekTimes : PlayerTimeUpdate(time) /\ Observed("playerTimeUpdate")

SpecTransport == Init /\ [][NextTransport]_vars

\* detection and re-detection around an editing session: new audio, changed
\* settings, the detector's answers, and relabels in the editor
NextDetection ==
    \/ \E blob \in Blobs : HandleAudioReady(blob) /\ Observed("handleAudioReady")
    \/ \E localShapes \in ShapeToggles :
            HandleApply(localShapes) /\ Observed("handleSettingsChange")
    \/ \E cues \in DetectorCues : DetectionSucceeds(DetectorJSON(cues)) /\ Replaced
    \/ \E message \in Messages : DetectionFails(message) /\ Observed("processAudio catch")
    \/ ClickSegment(0) /\ NotObserved
    \/ \E newShape \in RelabelShapes :
            ChangeSelectedShape(newShape) /\ Tracked("changeSelectedShape")

SpecDetection == InitDetection /\ [][NextDetection]_vars

\* an editing session across a re-detection: relabel, undo and redo in the
\* editor, before and after the detector's answer replaces the sequence
NextReseed ==
    \/ HandleAudioReady(2) /\ Observed("handleAudioReady")
    \/ \E cues \in DetectorCues : DetectionSucceeds(DetectorJSON(cues)) /\ Replaced
    \/ ClickSegment(0) /\ NotObserved
    \/ \E newShape \in RelabelShapes :
            ChangeSelectedShape(newShape) /\ Tracked("changeSelectedShape")
    \/ Undo /\ Tracked("undo")
    \/ Redo /\ Tracked("redo")

SpecReseed == InitDetection /\ [][NextReseed]_vars

\* seeding and export: the detector's answers and the download of the JSON
NextExport ==
    \/ \E blob \in Blobs : HandleAudioReady(blob) /\ NotObserved
    \/ \E cues \in DetectorCues : DetectionSucceeds(DetectorJSON(cues)) /\ Replaced
    \/ \E newShape \in RelabelShapes :
            ChangeSelectedShape(newShape) /\ Tracked("changeSelectedShape")
    \/ ClickSegment(0) /\ NotObserved
    \/ HandleDownload /\ Observed("handleDownload")

SpecExport == InitDetection /\ [][NextExport]_vars

\* the temporary directory is empty and no request has arrived
InitGateway ==
    /\ Mounted(EditedSeed, 0)
    /\ rhubarbApiUrl = FALSE

\* the requests of the three gateways, two at a time, step by step
NextGateway ==
    \/ Tick /\ NotObserved
    \/ \E r \in Requests, gateway \in {"action", "process"}, format \in Formats,
          dialog \in BOOLEAN :
            Arrive(r, gateway, format, dialog) /\ NotObserved
    \/ \E r \in Requests, dialog \in BOOLEAN : ArriveUpload(r, dialog) /\ NotObserved
    \/ \E r \in Requests, gateway \in {"process", "apiProcess"} :
            NoAudio(r, gateway) /\ NotObserved
    \/ \E r \in Requests : WriteOriginal(r) /\ NotObserved
    \/ \E r \in Requests : ConvertToWav(r) /\ NotObserved
    \/ \E r \in Requests : WriteDialog(r) /\ NotObserved
    \/ \E r \in Requests : RunDetector(r) /\ NotObserved
    \/ \E r \in Requests : ReadOutput(r) /\ NotObserved
    \/ \E r \in Requests, partial \in BOOLEAN : RequestFails(r, partial) /\ NotObserved
    \/ \E r \in Requests : Cleanup(r) /\ NotObserved

SpecGateway == InitGateway /\ [][NextGateway]_vars

\* the hook's two operations under any interleaving: processAudio (through
\* handleAudioReady), reset, and the detector's answers
NextGuard ==
    \/ \E blob \in Blobs :
            /\ Len(pending) < MaxInFlight
            /\ HandleAudioReady(blob) /\ Observed("handleAudioReady")
    \/ Reset /\ Observed("reset")
    \/ \E cues \in DetectorCues : DetectionSucceeds(DetectorJSON(cues)) /\ Replaced
    \/ \E message \in Messages : DetectionFails(message) /\ Observed("processAudio catch")

SpecGuard == InitDetection /\ [][NextGuard]_vars

\* a selection that outlives its segment: previous / next, split and
\* undo / redo, each recorded by the observer, on an editor whose history
\* already holds two relabels
NextStale ==
    \/ GoToPrevSegment /\ Observed("goToPrevSegment")
    \/ GoToNextSegment /\ Observed("goToNextSegment")
    \/ SplitAtPlayhead /\ Observed("splitAtPlayhead")
    \/ Undo /\ Observed("undo")
    \/ Redo /\ Observed("redo")
    \/ \E time \in SeekTimes : Seek(time) /\ NotObserved

SpecStale == InitEdited /\ [][NextStale]_vars

\* the keyboard edits of the selected segment (relabel, delete, merge) on a
\* selection that an undo may have left past the end of the sequence
NextStaleEdit ==
    \/ GoToNextSegment /\ Observed("goToNextSegment")
    \/ SplitAtPlayhead /\ Observed("splitAtPlayhead")
    \/ Undo /\ Observed("undo")
    \/ \E time \in SeekTimes : Seek(time) /\ NotObserved
    \/ DeleteSegment(NoSel) /\ Observed("deleteSelected")
    \/ MergeWithNext /\ Observed("mergeWithNext")
    \/ \E newShape \in RelabelShapes :
            ChangeSelectedShape(newShape) /\ Observed("changeSelectedShape")

SpecStaleEdit == InitEdited /\ [][NextStaleEdit]_vars

\* new audio, changed settings and the detector's answers, with the options
\* of the answered call recorded
NextSettings ==
    \/ \E blob \in Blobs : HandleAudioReady(blob) /\ Observed("handleAudioReady")
    \/ \E localShapes \in ShapeToggles :
            HandleApply(localShapes) /\ Observed("handleSettingsChange")
    \/ \E cues \in DetectorCues : DetectionSucceeds(DetectorJSON(cues)) /\ Produced
    \/ \E message \in Messages : DetectionFails(message) /\ Observed("processAudio catch")

SpecSettings == InitDetection /\ [][NextSettings]_vars

\* the video export and the displays on a sequence that drags have resized,
\* with the seeks of the page's play-head
NextLookup ==
    \/ \E index \in 0..(Len(phonemes) - 1), startMarker \in BOOLEAN, t \in DragTimes :
            HandleSegmentDrag(index, startMarker, t) /\ Observed("handleSegmentDrag")
    \/ \E time \in SeekTimes : TimelineSeek(time) /\ NotObserved
    \/ ExportVideo /\ Observed("handleExportVideo")

SpecLookup == Init /\ [][NextLookup]_vars

\* Split in Half from the segment menu, with seeks of the editor's play-head
NextSplitInHalf ==
    \/ \E time \in SeekTimes : Seek(time) /\ NotObserved
    \/ \E index \in 0..(Len(phonemes) - 1) : RightClickSegment(index) /\ NotObserved
    \/ CloseContextMenu /\ NotObserved
    \/ MenuSplitInHalf /\ Observed("menuSplitInHalf")
    \/ SplitTimerFires /\ Observed("splitAtPlayhead")

SpecSplitInHalf == Init /\ [][NextSplitInHalf]_vars

----------------------------------------------------------------------------
(* Properties *)

\* the five invariants of a segment sequence over [0, Duration]
WellFormed(ps) ==
    /\ Len(ps) > 0
    /\ ps[1].start = 0
    /\ ps[Len(ps)].end = Duration
    /\ \A i \in 1..Len(ps) : ps[i].start < ps[i].end
    /\ \A i \in 1..(Len(ps) - 1) :
           ps[i].end = ps[i + 1].start /\ ps[i].start <= ps[i + 1].start

\* a step in which a handler went through addToHistory
CommitStep == nCommits' = nCommits + 1

\* the cursor is an index into the history
CursorValid == 0 <= historyIndex /\ historyIndex <= Len(history) - 1

\* C1: in every reachable state the live sequence is sorted, contiguous,
\* starts at 0, ends at the total duration and has only segments with
\* start < end.
C1_LiveSequenceWellFormed == WellFormed(phonemes)

\* C2: an undo() called right after a committed mutation installs the
\* sequence that was live just before that mutation.
C2_UndoRestoresPreCommit ==
    [][(last.kind = "commit" /\ Undo) => phonemes' = last.pre]_vars

\* C3: once a commit, an undo or a redo has completed (and the history holds
\* an entry), the live sequence is the snapshot at the cursor.
C3_LiveIsCursorSnapshot ==
    (last.kind # "mount" /\ Len(history) > 0) =>
        (CursorValid /\ history[historyIndex + 1].phonemes = phonemes)

C6_HistoryBoundedCursorValid ==
    [][ /\ Len(history') <= HistoryCap
        /\ Len(history') > 0 => (0 <= historyIndex' /\ historyIndex' <= Len(history') - 1)
        /\ (CommitStep /\ Len(history) = HistoryCap) =>
               /\ Len(history') = HistoryCap
               /\ SubSeq(history', 1, HistoryCap - 1) = Tail(history)
               /\ historyIndex' = HistoryCap - 1 ]_vars

\* C7: a resize that moves the start (the end) of segment i leaves segment
\* i-1's end equal to segment i's new start (segment i+1's start equal to
\* segment i's new end).
C7_ResizeCascades ==
    [][ \A index \in 0..(Len(phonemes) - 1), t \in DragTimes :
          /\ (HandleSegmentDrag(index, TRUE, t) /\ CommitStep /\ index > 0) =>
                 /\ phonemes'[index + 1].start = t
                 /\ phonemes'[index].end = t
          /\ (HandleSegmentDrag(index, FALSE, t) /\ CommitStep
                 /\ index < Len(phonemes') - 1) =>
                 /\ phonemes'[index + 1].end = t
                 /\ phonemes'[index + 2].start = t ]_vars

\* C8: after a resize of segment i, segment i and both of its neighbours
\* have start < end.
C8_ResizeNeverInverts ==
    [][ \A index \in 0..(Len(phonemes) - 1), startMarker \in BOOLEAN, t \in DragTimes :
          (HandleSegmentDrag(index, startMarker, t) /\ CommitStep) =>
              \A j \in {index, index + 1, index + 2} \cap (1..Len(phonemes')) :
                  phonemes'[j].start < phonemes'[j].end ]_vars

\* a step of split, mergeWithNext, deleteBoundary, deleteSegment or relabel
EditStep ==
    \/ SplitAtPlayhead
    \/ MergeWithNext
    \/ \E boundaryIndex \in 0..(Len(phonemes) - 1) : DeleteBoundary(boundaryIndex)
    \/ \E segmentId \in {NoSel} \cup 0..(Len(phonemes) - 1) : DeleteSegment(segmentId)
    \/ \E newShape \in RelabelShapes : ChangeSelectedShape(newShape)

\* C9: split, mergeWithNext, deleteBoundary, deleteSegment and relabel, run
\* on a sequence that satisfies the five invariants, leave it unchanged or
\* leave a sequence that satisfies them again.
C9_EditsPreserveInvariants ==
    [][(WellFormed(phonemes) /\ EditStep) =>
           (phonemes' = phonemes \/ WellFormed(phonemes'))]_vars

\* a segment was deleted from a well-formed sequence and the result is
\* well-formed
C9_Witness ==
    /\ last.kind = "commit"
    /\ WellFormed(last.pre)
    /\ Len(history) > 0 /\ history[Len(history)].description = "Delete segment"
    /\ history[Len(history)].phonemes = phonemes
    /\ Len(phonemes) = Len(last.pre) - 1
    /\ WellFormed(phonemes)

\* segment k (0-based) is the one segment of ps that contains t, and t is at
\* least the guard away from both of its edges
SplittableAt(ps, k, t) ==
    /\ {i \in 1..Len(ps) : ps[i].start <= t /\ t < ps[i].end} = {k + 1}
    /\ t - ps[k + 1].start >= SplitGuard
    /\ ps[k + 1].end - t >= SplitGuard

\* C10: a split at play-head time t inside segment k, at least 20 ms from
\* both edges, gives a sequence one longer in which segment k is
\* [start_k, t] and segment k+1 is [t, end_k], both with k's label, every
\* other segment is as before, and segment k+1 is selected.
C10_SplitPostcondition ==
    [][ \A k \in 0..(Len(phonemes) - 1) :
          (SplitAtPlayhead /\ SplittableAt(phonemes, k, currentTime)) =>
              /\ Len(phonemes') = Len(phonemes) + 1
              /\ phonemes'[k + 1] =
                     Seg(phonemes[k + 1].start, currentTime, phonemes[k + 1].value)
              /\ phonemes'[k + 2] =
                     Seg(currentTime, phonemes[k + 1].end, phonemes[k + 1].value)
              /\ \A j \in 1..k : phonemes'[j] = phonemes[j]
              /\ \A j \in (k + 2)..Len(phonemes) : phonemes'[j + 1] = phonemes[j]
              /\ selectedSegmentId' = k + 1 ]_vars

\* a split has just been committed: the selected segment starts at the
\* play-head, the one before it ends there, and they share a label
C10_Witness ==
    /\ last.kind = "commit"
    /\ Len(history) > 0 /\ history[Len(history)].description = "Split segment"
    /\ Len(phonemes) = Len(last.pre) + 1
    /\ selectedSegmentId >= 1 /\ selectedSegmentId < Len(phonemes)
    /\ phonemes[selectedSegmentId + 1].start = currentTime
    /\ phonemes[selectedSegmentId].end = currentTime
    /\ phonemes[selectedSegmentId].value = phonemes[selectedSegmentId + 1].value

\* the segments of ps (0-based) that contain t, by the half-open test
Containing(ps, t) == {k \in 0..(Len(ps) - 1) : ps[k + 1].start <= t /\ t < ps[k + 1].end}

\* t is less than the guard away from the start or the end of segment k of ps
NearEdge(ps, k, t) ==
    t - ps[k + 1].start < SplitGuard \/ ps[k + 1].end - t < SplitGuard

\* C11: a split with the play-head in no segment, or less than 20 ms from
\* the start or the end of the segment that contains it (of every segment
\* that does), leaves the sequence, the history entries and the cursor
\* unchanged.
C11_RefusedSplitChangesNothing ==
    [][ ( /\ SplitAtPlayhead
          /\ \A k \in Containing(phonemes, currentTime) :
                 NearEdge(phonemes, k, currentTime) ) =>
            UNCHANGED <<phonemes, history, historyIndex>> ]_vars

\* the observer saw a split return early with the play-head inside a
\* segment but less than 20 ms from one of its edges
C11_Witness ==
    /\ tried = [handler |-> "splitAtPlayhead", committed |-> FALSE]
    /\ \E k \in Containing(phonemes, currentTime) : NearEdge(phonemes, k, currentTime)
    /\ nCommits > 0

\* C12: deleteSegment on a sequence of exactly one segment leaves the
\* sequence, the history entries and the cursor unchanged.
C12_SingletonDeleteRejected ==
    [][ \A segmentId \in {NoSel} \cup 0..(Len(phonemes) - 1) :
          (DeleteSegment(segmentId) /\ Len(phonemes) = 1) =>
              UNCHANGED <<phonemes, history, historyIndex>> ]_vars

\* the observer saw deleteSegment return early on a sequence of one segment,
\* after an earlier commit and with that segment selected
C12_Witness ==
    /\ tried = [handler |-> "deleteSegment", committed |-> FALSE]
    /\ Len(phonemes) = 1
    /\ selectedSegmentId = 0
    /\ nCommits > 0

\* C13: deleteSegment of segment i of a sequence of n >= 2 segments leaves
\* n - 1 segments; if i > 0, segment i-1 now ends where the deleted segment
\* ended, and if i = 0, the new first segment starts at 0.
C13_DeleteFillsGap ==
    [][ \A segmentId \in {NoSel} \cup 0..(Len(phonemes) - 1) :
          LET i == IF segmentId # NoSel THEN segmentId ELSE selectedSegmentId
          IN (DeleteSegment(segmentId) /\ Len(phonemes) >= 2
                  /\ i >= 0 /\ i < Len(phonemes)) =>
                 /\ Len(phonemes') = Len(phonemes) - 1
                 /\ i > 0 => phonemes'[i].end = phonemes[i + 1].end
                 /\ i = 0 => phonemes'[1].start = 0 ]_vars

\* ps with segments i and i+1 (0-based) replaced by one segment that spans
\* both and carries segment i's label, all other segments as they were
Merged(ps, i) ==
    [j \in 1..(Len(ps) - 1) |->
        IF j < i + 1 THEN ps[j]
        ELSE IF j = i + 1 THEN Seg(ps[i + 1].start, ps[i + 2].end, ps[i + 1].value)
        ELSE ps[j + 1]]

\* C14: for i < n-1, mergeWithNext with segment i selected and
\* deleteBoundary(i) both leave the sequence in which segments i and i+1 are
\* replaced by one segment [start_i, end_(i+1)] with segment i's label and
\* every other segment is unchanged; for i >= n-1 both leave the sequence,
\* the history entries and the cursor unchanged.
C14_MergeAndDeleteBoundaryAgree ==
    [][ /\ (MergeWithNext /\ selectedSegmentId # NoSel) =>
               IF selectedSegmentId < Len(phonemes) - 1
               THEN phonemes' = Merged(phonemes, selectedSegmentId)
               ELSE UNCHANGED <<phonemes, history, historyIndex>>
        /\ \A boundaryIndex \in 0..(Len(phonemes) - 1) :
               DeleteBoundary(boundaryIndex) =>
                   IF boundaryIndex < Len(phonemes) - 1
                   THEN phonemes' = Merged(phonemes, boundaryIndex)
                   ELSE UNCHANGED <<phonemes, history, historyIndex>> ]_vars

\* a deleteBoundary was committed, its result is what mergeWithNext builds
\* for the same index, and the observer then saw mergeWithNext return early
\* with the last segment (or one past it) selected
C14_Witness ==
    /\ tried = [handler |-> "mergeWithNext", committed |-> FALSE]
    /\ selectedSegmentId # NoSel /\ selectedSegmentId >= Len(phonemes) - 1
    /\ last.kind = "commit"
    /\ history[Len(history)].description = "Delete boundary (merge)"
    /\ \E i \in 0..(Len(last.pre) - 2) :
           /\ phonemes = Merged(last.pre, i)
           /\ phonemes = MergeResult(last.pre, i)

\* the last commit was a split: its entry is the newest of the history
LastCommitWasSplit ==
    /\ last.kind = "commit"
    /\ Len(history) > 0
    /\ history[Len(history)].description = "Split segment"
    /\ Len(phonemes) = Len(last.pre) + 1

\* the first index (0-based) at which the sequences a and b differ
FirstDifference(a, b) ==
    LET d == {j \in 1..Min(Len(a), Len(b)) : a[j] # b[j]}
    IN IF d = {} THEN Min(Len(a), Len(b))
       ELSE (CHOOSE j \in d : \A m \in d : j <= m) - 1

\* C15: after a split of segment k, a mergeWithNext with segment k selected,
\* with no other commit, undo or redo in between, leaves exactly the
\* sequence that was live before the split.
C15_SplitThenMergeRestores ==
    [][ ( /\ LastCommitWasSplit
          /\ selectedSegmentId = FirstDifference(last.pre, phonemes)
          /\ MergeWithNext ) =>
            phonemes' = last.pre ]_vars

\* a split and then a merge were committed and the observer saw the merge:
\* the live sequence is the one the editor was mounted on
C15_Witness ==
    /\ tried = [handler |-> "mergeWithNext", committed |-> TRUE]
    /\ Len(history) >= 2
    /\ history[Len(history)].description = "Merge segments"
    /\ history[Len(history) - 1].description = "Split segment"
    /\ Len(last.pre) = Len(phonemes) + 1
    /\ nCommits = 2
    /\ phonemes \in Seeds

\* qs is ps with the label of segment i (0-based) set to shape and nothing
\* else changed: same count, same starts and ends, same other labels
RelabelledOnly(ps, qs, i, shape) ==
    /\ Len(qs) = Len(ps)
    /\ \A j \in 1..Len(ps) :
           /\ qs[j].start = ps[j].start
           /\ qs[j].end = ps[j].end
           /\ qs[j].value = IF j = i + 1 THEN shape ELSE ps[j].value

\* C16: a relabel of segment i to L, from the shape palette with segment i
\* selected or from the menu opened on segment i, changes the label of
\* segment i to L and nothing else of the sequence.
C16_RelabelChangesOnlyTheLabel ==
    [][ /\ \A newShape \in RelabelShapes :
               ( /\ ChangeSelectedShape(newShape)
                 /\ selectedSegmentId >= 0 /\ selectedSegmentId < Len(phonemes) ) =>
                   RelabelledOnly(phonemes, phonemes', selectedSegmentId, newShape)
        /\ \A shape \in RelabelShapes :
               MenuRelabel(shape) =>
                   RelabelledOnly(phonemes, phonemes', contextMenu.index, shape) ]_vars

\* the observer saw a relabel from the segment menu commit: the live
\* sequence differs from the one before it in one label only
C16_Witness ==
    /\ tried = [handler |-> "menuRelabel", committed |-> TRUE]
    /\ last.kind = "commit"
    /\ contextMenu = NoMenu
    /\ phonemes # last.pre
    /\ \E i \in 0..(Len(last.pre) - 1), shape \in RelabelShapes :
           RelabelledOnly(last.pre, phonemes, i, shape)

\* C17: at most one of the selected segment and the selected boundary is set.
C17_SelectionExclusive ==
    selectedSegmentId = NoSel \/ selectedBoundaryIndex = NoSel

\* C18: previous() with segment 0 selected and next() with the last segment
\* selected leave the selection as it is; with nothing selected and a
\* non-empty sequence either one selects segment 0; in every other case the
\* selection moves by exactly one index.
C18_NavigationClamped ==
    [][ /\ GoToPrevSegment =>
               selectedSegmentId' =
                   IF selectedSegmentId = NoSel
                   THEN (IF Len(phonemes) > 0 THEN 0 ELSE NoSel)
                   ELSE IF selectedSegmentId = 0 THEN 0
                   ELSE selectedSegmentId - 1
        /\ GoToNextSegment =>
               selectedSegmentId' =
                   IF selectedSegmentId = NoSel
                   THEN (IF Len(phonemes) > 0 THEN 0 ELSE NoSel)
                   ELSE IF selectedSegmentId = Len(phonemes) - 1 THEN selectedSegmentId
                   ELSE selectedSegmentId + 1 ]_vars

\* C19: a previous() or next() that changes the selected segment to an
\* existing segment, also from nothing selected to segment 0, leaves the
\* play-head at the start of the newly selected segment (the seek it
\* requested).
C19_NavigationSeeks ==
    [][ ( /\ \/ GoToPrevSegment /\ Observed("goToPrevSegment")
             \/ GoToNextSegment /\ Observed("goToNextSegment")
          /\ selectedSegmentId' # selectedSegmentId
          /\ selectedSegmentId' < Len(phonemes) ) =>
            currentTime' = phonemes[selectedSegmentId' + 1].start ]_vars

\* C20: at most one of the two transports is playing.
C20_OneTransportPlaying == ~(isPlaying /\ playbackIsPlaying)

\* C21: when the editor's transport starts playing while the page's audio
\* (the overview timeline) is playing, the page's audio is paused.
C21_EditorPlayPausesTimeline ==
    [][(TogglePlayPause /\ ~isPlaying /\ playbackIsPlaying) => ~playbackIsPlaying']_vars

\* C22: once the page's audio stops playing, by a pause or by reaching its
\* end, the active-player token no longer names the timeline.
C22_TimelineStopClearsToken ==
    [][(playbackIsPlaying /\ ~playbackIsPlaying') => activePlayer' # "timeline"]_vars

\* C23: a time update of the editor's player starts neither transport,
\* leaves the page's playing flag and the active-player token as they are,
\* and changes the page's play-head time only if the token names the editor.
C23_TimeUpdateOnlyMirrorsTime ==
    [][ \A time \in SeekTimes :
          PlayerTimeUpdate(time) =>
              /\ UNCHANGED <<isPlaying, playbackIsPlaying, activePlayer>>
              /\ playbackCurrentTime' # playbackCurrentTime => activePlayer = "editor"
      ]_vars

\* the observer saw a time update of the editor's player while the page's
\* audio was playing as the active player: the editor's play-head moved and
\* the page's did not follow
C23_Witness ==
    /\ tried.handler = "playerTimeUpdate"
    /\ isPlaying /\ playbackIsPlaying
    /\ activePlayer = "timeline"
    /\ currentTime > 0
    /\ playbackCurrentTime # currentTime

\* C24: while a detection call is in flight, a further processAudio call,
\* from new audio or from changed settings, starts no detection and leaves
\* status, error and result as they are.
C24_SecondCallRejected ==
    [][ \A blob \in Blobs, localShapes \in ShapeToggles :
          (pending # <<>> /\ (HandleAudioReady(blob) \/ HandleApply(localShapes))) =>
              UNCHANGED <<status, error, result, pending>> ]_vars

\* the observer saw handleAudioReady run with another audio than the one of
\* the single call in flight: that call was turned away
C24_Witness ==
    /\ tried.handler = "handleAudioReady"
    /\ processingRef /\ status = "processing"
    /\ Len(pending) = 1
    /\ currentAudioBlob # pending[1].blob

\* C25: a detection call that fails leaves the last result and the live
\* sequence as they are, sets status 'error' and the error message, and
\* releases the guard: a processAudio call that follows is accepted.
C25_FailureKeepsLastGood ==
    [][ /\ \A message \in Messages :
               DetectionFails(message) =>
                   /\ UNCHANGED <<result, phonemes>>
                   /\ status' = "error"
                   /\ error' = message /\ error' # NoError
                   /\ ~processingRef'
        /\ \A blob \in Blobs :
               (tried.handler = "processAudio catch" /\ HandleAudioReady(blob)) =>
                   /\ status' = "processing"
                   /\ Len(pending') = 1
                   /\ pending'[1].blob = blob ]_vars

\* the observer saw a detection fail after the live sequence had been
\* edited: the error is shown, the guard is free, and the result and the
\* edited sequence are still there
C25_Witness ==
    /\ tried.handler = "processAudio catch"
    /\ status = "error" /\ error \in Messages
    /\ ~processingRef /\ pending = <<>>
    /\ nCommits > 0
    /\ phonemes # result.phonemes
    /\ WellFormed(phonemes)

\* C26: a detection answer whose cues are not sorted, contiguous and
\* covering [0, Duration] is rejected: the live sequence stays as it is and
\* an error is reported.
C26_InvalidCuesRejected ==
    [][ \A cues \in DetectorCues :
          (DetectionSucceeds(DetectorJSON(cues)) /\ ~WellFormed(cues)) =>
              /\ phonemes' = phonemes
              /\ status' = "error" ]_vars

\* the cue lists a and b of two JSON texts have the same length and, index
\* by index, starts and ends that denote the same numbers and the same labels
SameCues(a, b) ==
    /\ Len(a) = Len(b)
    /\ \A i \in 1..Len(a) :
           /\ ParseNumber(a[i].start) = ParseNumber(b[i].start)
           /\ ParseNumber(a[i].end) = ParseNumber(b[i].end)
           /\ a[i].value = b[i].value

\* C27: a download right after the detector's answer was seeded gives a
\* JSON whose mouthCues are the detector's cues (same count, and per index
\* the same start, end and label), and the mouthCues of every download are
\* the live sequence in its order.
C27_SeedThenExportRoundTrip ==
    [][ HandleDownload =>
          /\ ParseCues(downloaded'.mouthCues) = phonemes
          /\ \A cues \in DetectorCues :
                 ( /\ tried.handler = "processAudio return"
                   /\ result.phonemes = ParseCues(DetectorJSON(cues)) ) =>
                     SameCues(downloaded'.mouthCues, DetectorJSON(cues)) ]_vars

\* the observer saw a download of a JSON of three cues seeded from a
\* detection answer: the first cue ends at 0.05 and the second at 0.5
C27_Witness ==
    /\ tried.handler = "handleDownload"
    /\ downloaded # NoFile
    /\ result.phonemes \in DetectorCues
    /\ ParseCues(downloaded.mouthCues) = result.phonemes
    /\ Len(downloaded.mouthCues) = 3
    /\ downloaded.mouthCues[1].end = Literal(0, <<0, 5>>)
    /\ downloaded.mouthCues[2].end = Literal(0, <<5>>)

\* C28: the value of --extendedShapes the detector is started with is the
\* string of exactly the shapes toggled on in the Settings dialog, the empty
\* string when G, H and X are all off, with the server action and with the
\* external API.
C28_DetectorGetsToggledShapes ==
    [][ \A localShapes \in ShapeToggles :
          (HandleApply(localShapes) /\ pending = <<>>) =>
              /\ Len(pending') = 1
              /\ pending'[1].detector = ShapesString(localShapes) ]_vars

\* C29: a committed resize of segment i leaves, of the sequence that was
\* live before it, everything but the start and end of segment i and the
\* adjoining end of segment i-1 and start of segment i+1: the count, every
\* label and every other time are as they were; and the history entries up
\* to the cursor are kept.
C29_ResizeKeepsEarlierEdits ==
    [][ \A index \in 0..(Len(phonemes) - 1), startMarker \in BOOLEAN, t \in DragTimes :
          (HandleSegmentDrag(index, startMarker, t) /\ CommitStep) =>
              /\ Len(phonemes') = Len(phonemes)
              /\ \A j \in 1..Len(phonemes) :
                     /\ phonemes'[j].value = phonemes[j].value
                     /\ (j < index \/ j > index + 2) => phonemes'[j] = phonemes[j]
                     /\ j = index => phonemes'[j].start = phonemes[j].start
                     /\ j = index + 2 => phonemes'[j].end = phonemes[j].end
              /\ Len(history') >= historyIndex + 1
              /\ SubSeq(history', 1, historyIndex + 1) =
                     SubSeq(history, 1, historyIndex + 1) ]_vars

\* C30: once a detection result has replaced the sequence, no undo and no
\* redo installs a history entry that was committed before the replacement.
C30_NoStaleSnapshotInstalled ==
    [][ /\ (Undo /\ historyIndex > 0 /\ historyIndex <= Len(history)) =>
               historyIndex > staleEntries
        /\ (Redo /\ historyIndex < Len(history) - 1) =>
               historyIndex + 2 > staleEntries ]_vars


\* a request has been answered and its handler has returned
Finished(r) == requests[r].pc = "done"

\* C31: once a detection request has finished, with a result or with an
\* error, no temporary file that it wrote is left, on each of the three
\* gateways.
C31_TempFilesRemoved ==
    \A r \in Requests :
        Finished(r) => \A path \in DOMAIN files : files[path].writer # r


\* C32: under any interleaving of processAudio and reset calls, at most one
\* detection call is in flight.
C32_AtMostOneInFlight == Len(pending) <= 1


\* C33: previous() and next() select only an index within 0..n-1 of the
\* current sequence, and the segment whose start they read exists, also
\* when the selected index is left over from a longer earlier sequence.
C33_NavigationStaysInRange ==
    [][ /\ (GoToPrevSegment /\ Observed("goToPrevSegment")) =>
               /\ selectedSegmentId' # selectedSegmentId =>
                      selectedSegmentId' \in 0..(Len(phonemes) - 1)
               /\ selectedSegmentId > 0 => selectedSegmentId - 1 < Len(phonemes)
        /\ (GoToNextSegment /\ Observed("goToNextSegment")) =>
               /\ selectedSegmentId' # selectedSegmentId =>
                      selectedSegmentId' \in 0..(Len(phonemes) - 1)
               /\ (selectedSegmentId # NoSel /\ selectedSegmentId < Len(phonemes) - 1) =>
                      selectedSegmentId + 1 < Len(phonemes) ]_vars


\* the selected segment index is not an index of the live sequence
SelectionOutOfRange == selectedSegmentId # NoSel /\ selectedSegmentId >= Len(phonemes)

\* C34: relabel, deleteSegment and mergeWithNext of the selected segment,
\* run while the selected index is out of range for the live sequence, leave
\* the sequence, the history entries and the cursor unchanged.
C34_StaleSelectionEditsRejected ==
    [][ ( /\ SelectionOutOfRange
          /\ \/ \E newShape \in RelabelShapes : ChangeSelectedShape(newShape)
             \/ DeleteSegment(NoSel)
             \/ MergeWithNext ) =>
            UNCHANGED <<phonemes, history, historyIndex>> ]_vars

\* after an undo had shortened the sequence under the selection, the
\* observer saw a relabel of the selected segment return early
C34_Witness ==
    /\ tried = [handler |-> "changeSelectedShape", committed |-> FALSE]
    /\ SelectionOutOfRange
    /\ last.kind = "undo" /\ last.moved
    /\ Len(last.pre) > Len(phonemes)
    /\ Len(phonemes) > 1


\* C35: a settings change whose re-detection is turned away by the guard
\* leaves the stored extendedShapes as it was, and after a re-detection has
\* failed the stored extendedShapes is the value the displayed sequence was
\* detected with.
C35_SettingMatchesDisplayedSequence ==
    [][ /\ \A localShapes \in ShapeToggles :
               (HandleApply(localShapes) /\ processingRef) =>
                   extendedShapes' = extendedShapes
        /\ \A message \in Messages :
               (DetectionFails(message) /\ Len(pending) = 1) =>
                   extendedShapes' = resultShapes' ]_vars


\* a request has arrived and its handler has not returned yet
InFlight(r) == requests[r].pc \notin {"idle", "done"}

\* C36: two requests that the same gateway handles at the same time have no
\* temporary file path in common.
C36_ConcurrentRequestsUseOwnPaths ==
    \A r1, r2 \in Requests :
        ( /\ r1 # r2
          /\ InFlight(r1) /\ InFlight(r2)
          /\ requests[r1].gateway = requests[r2].gateway ) =>
            RequestPaths(requests[r1]) \cap RequestPaths(requests[r2]) = {}


\* C37: for every sequence and every time, the shape the video export looks
\* up for a frame at that time is the shape the displays look up at that
\* time, also when no segment contains the time.
C37_ExportLookupMatchesDisplay ==
    [][ ExportVideo =>
          /\ \A time \in DOMAIN exportedShapes' :
                 exportedShapes'[time] = CurrentShape(phonemes, time)
          /\ GetPhonemeAtTime(phonemes, playbackCurrentTime)
                 = CurrentShape(phonemes, playbackCurrentTime) ]_vars


\* C38: when the timer of 'Split in Half' on segment k fires, segment k is
\* replaced by two segments that meet at its midpoint (start + end) / 2,
\* wherever the play-head was before the click (for a segment long enough to
\* be split at its midpoint).
C38_SplitInHalfAtMidpoint ==
    [][ (/\ SplitTimerFires
         /\ splitTimer.index < Len(phonemes)
         /\ ~TooCloseToEdges(phonemes[splitTimer.index + 1],
                             (phonemes[splitTimer.index + 1].start
                                + phonemes[splitTimer.index + 1].end) \div 2))
        => phonemes' = SplitResult(phonemes, splitTimer.index,
                                   (phonemes[splitTimer.index + 1].start
                                      + phonemes[splitTimer.index + 1].end) \div 2) ]_vars

====
